---- MODULE Spec2Model ----
(***************************************************************************)
(* tiktok-counts.js: the collection run of the TikTok profile scraper.     *)
(*                                                                         *)
(* One run (the async main function) loads the configuration, the user    *)
(* list and the last report, fetches every profile in batches             *)
(* (processInBatches driving scrapeTikTokProfile), re-fetches suspicious   *)
(* video counts (validateVideoCounts) and writes a report.                 *)
(*                                                                         *)
(* JavaScript runs one callback at a time: every action below is the code  *)
(* that runs between two awaits.  The browser (puppeteer) is the only      *)
(* asynchronous collaborator; what a page load yields is an input drawn    *)
(* from AttemptKinds and Pages.                                            *)
(***************************************************************************)
EXTENDS Integers, Sequences, FiniteSets, TLC

VARIABLES
    mainPc,      \* position of the main function
    config,      \* what loadConfig returned
    usernames,   \* what readUsernamesFromFile returned
    lastReport,  \* what loadLastReport returned: <<>> (null) or <<report>>
    i,           \* loop variable of processInBatches
    rounds,      \* iterations of the loop of processInBatches begun so far
    batch,       \* input positions of the tasks of the current Promise.all
    fetches,     \* the scrapeTikTokProfile calls not yet consumed by their awaiter
    results,     \* the results array of processInBatches / validateVideoCounts
    progress,    \* the progress bar: its value and the username it shows
    retryLog,    \* lines of reports/retry_log.txt
    v,           \* position of the for-of loop of validateVideoCounts
    report,      \* the report file written by this run: <<>> or <<outputData>>
    raw,         \* history: the array processInBatches returned, as returned
    corrective,  \* history: the corrective calls of validateVideoCounts, in order
    printed,     \* how main ended: exit code, and what it printed at the end
    fnIn,        \* arguments of a function checked on its own (see the end)
    fnOut        \* <<>> or <<its return value>>

vars == <<mainPc, config, usernames, lastReport, i, rounds, batch, fetches,
          results, progress, retryLog, v, report, raw, corrective, printed,
          fnIn, fnOut>>

----------------------------------------------------------------------------
(* Bounds of the model *)

MaxUsers == 3
MaxRounds == 4

(* Program constants *)

DefaultRetries == 3
DefaultRankLimit == 5
DefaultBatchSize == 5
videoBufferCount == 5
CorrectiveRetries == 1

Names == <<"alice", "bob", "carol", "dave", "erin", "frank">>

Min(a, b) == IF a < b THEN a ELSE b
Max(a, b) == IF a > b THEN a ELSE b

\* The value undefined / null is the empty sequence, a value x is <<x>>.
Undefined == <<>>
Some(x) == <<x>>

NoLogPath == "undefined"
LogFilePath == "reports/retry_log.txt"

FailedError == "Failed to fetch non-empty videos after retries"

----------------------------------------------------------------------------
(* loadConfig *)

\* Contents of config.json: unreadable or unparseable, or an object that has
\* or lacks "retries" and "batchSize" (batchSize 0 is falsy, like a missing one).
ConfigRetries == {1, 2}
ConfigBatchSizes == {-1, 1, 2}

ConfigFiles ==
    {[unreadable |-> TRUE]}
    \cup {[rankLimit |-> DefaultRankLimit]}
    \cup {[retries |-> r] : r \in ConfigRetries}
    \cup {[batchSize |-> b] : b \in {-1, 0}}
    \cup {[retries |-> r, batchSize |-> b] :
             r \in ConfigRetries, b \in ConfigBatchSizes}

Field(file, k) == IF k \in DOMAIN file THEN Some(file[k]) ELSE Undefined

loadConfig(file) ==
    IF "unreadable" \in DOMAIN file
    THEN [retries |-> Some(DefaultRetries), rankLimit |-> Some(DefaultRankLimit),
          regressionTolerance |-> Undefined,
          batchSize |-> DefaultBatchSize]
    ELSE [retries |-> Field(file, "retries"),
          rankLimit |-> Field(file, "rankLimit"),
          regressionTolerance |-> Field(file, "regressionTolerance"),
          batchSize |-> IF "batchSize" \in DOMAIN file /\ file.batchSize # 0
                        THEN file.batchSize ELSE DefaultBatchSize]

----------------------------------------------------------------------------
(* scrapeTikTokProfile *)

\* What one pass through the try block ends in:
\*   timeout    an error whose message contains 'Timeout'
\*   notExists  the error-page element is there: the code throws its own Error
\*   otherError any other error thrown by the page (message without 'Timeout')
\*   data       page.evaluate returned the extracted data
AttemptKinds == {"timeout", "notExists", "otherError", "data"}

\* The rendered profile page: the counts shown and the views of each video item.
Pages ==
    {[followers |-> 10, likes |-> 4, views |-> <<>>],
     [followers |-> 20, likes |-> 6, views |-> <<3, 5>>],
     [followers |-> 30, likes |-> 6, views |-> <<1, 1, 1, 1, 1, 1, 1, 1>>]}

\* The page of a profile that has lost all its videos but one.
ShrunkPage == [followers |-> 20, likes |-> 6, views |-> <<8>>]

\* The pages a call may be shown: a corrective call reads the profile later
\* than the call of the batch phase did, and may find it shrunk.
PagesSeen(isBatch) == IF isBatch THEN Pages ELSE Pages \cup {ShrunkPage}

RECURSIVE SumSeq(_)
SumSeq(s) == IF s = <<>> THEN 0 ELSE Head(s) + SumSeq(Tail(s))

\* lines 58-93: the object page.evaluate returns
ExtractData(page) ==
    [followers |-> page.followers,
     likes |-> page.likes,
     totalViews |-> SumSeq(page.views),
     totalVideos |-> Len(page.views),
     videos |-> page.views]

\* line 41: while (attempts < retries); attempts < undefined is false
LoopCond(attempts, retries) == retries # Undefined /\ attempts < retries[1]

\* line 95: if (data.videos.length > 0) break
BreakOnVideos_Always(data) == TRUE
BreakOnVideos_Never(data) == FALSE
BreakOnVideos(data) == Len(data.videos) > 0

\* line 97: error.message.includes('Timeout')
IsTimeout(kind) == kind = "timeout"

\* lines 101-105: fs.appendFileSync throws when the path is undefined
AppendThrows(logFilePath) == logFilePath = NoLogPath

\* lines 111-115: the value the call resolves with
\* What returning the data whenever some was extracted would give.
Outcome_NoEmptyCheck(username, data) ==
    IF data = <<>>
    THEN [username |-> username, error |-> FailedError]
    ELSE [username |-> username] @@ data[1]

Outcome(username, data) ==
    IF data = <<>> \/ Len(data[1].videos) = 0
    THEN [username |-> username, error |-> FailedError]
    ELSE [username |-> username] @@ data[1]

IsError(user) == "error" \in DOMAIN user

\* Where a call is after the loop body ran without break or throw.
LoopPc(attempts, retries) == IF LoopCond(attempts, retries) THEN "loop" ELSE "closing"

\* lines 26-39: the call up to its first pass through the loop condition; the
\* browser is launched (line 28)
NewFetch(username, retries, logFilePath, round) ==
    [username |-> username, retries |-> retries, logFilePath |-> logFilePath,
     round |-> round, attempts |-> 0, data |-> <<>>, last |-> "none",
     pc |-> LoopPc(0, retries), result |-> <<>>, browser |-> "open"]

BatchId(k) == <<"batch", k>>
RetryId(k) == <<"retry", k>>
IsBatch(f) == f[1] = "batch"

InFlight(f) == fetches[f].pc \in {"loop", "attempting", "closing"}
Settled(f) == fetches[f].pc = "done"
Rejected(f) == fetches[f].pc = "rejected"

\* lines 42-44: attempts++, page.goto is awaited
BeginAttempt(f) ==
    /\ fetches[f].pc = "loop"
    /\ fetches' = [fetches EXCEPT ![f].attempts = @ + 1,
                                  ![f].pc = "attempting",
                                  ![f].last = "none"]
    /\ UNCHANGED <<mainPc, config, usernames, lastReport, i, rounds, batch,
                   results, progress, retryLog, v, report, raw, corrective,
                   fnIn, fnOut,
                   printed>>

\* lines 44-106: the rest of the loop body, from the page's answer on.
\* A call of the batch phase that throws rejects Promise.all, processInBatches
\* and the main function in turn (nothing catches it).
AttemptSettles(f) ==
    /\ fetches[f].pc = "attempting"
    /\ \E kind \in AttemptKinds, page \in PagesSeen(IsBatch(f)) :
         LET c == fetches[f]
             data == Some(ExtractData(page))
         IN
         IF kind = "data"
         THEN /\ fetches' = [fetches EXCEPT
                    ![f].data = data,
                    ![f].last = IF Len(page.views) > 0 THEN "videos" ELSE "empty",
                    ![f].pc = IF BreakOnVideos(data[1]) THEN "closing"
                              ELSE LoopPc(c.attempts, c.retries)]
              /\ UNCHANGED <<retryLog, mainPc>>
         ELSE /\ page = CHOOSE p \in Pages : TRUE    \* no page is read
              /\ IF IsTimeout(kind)
                 THEN /\ fetches' = [fetches EXCEPT ![f].last = kind,
                                                    ![f].pc = "closing"]
                      /\ UNCHANGED <<retryLog, mainPc>>
                 ELSE IF AppendThrows(c.logFilePath)
                 THEN /\ fetches' = [fetches EXCEPT ![f].last = kind,
                                                    ![f].pc = "rejected"]
                      /\ mainPc' = IF IsBatch(f) /\ mainPc = "batch"
                                   THEN "aborted" ELSE mainPc
                      /\ UNCHANGED retryLog
                 ELSE /\ retryLog' = Append(retryLog, <<c.username, c.attempts, kind>>)
                      /\ fetches' = [fetches EXCEPT
                            ![f].last = kind,
                            ![f].pc = LoopPc(c.attempts, c.retries)]
                      /\ UNCHANGED mainPc
    /\ UNCHANGED <<config, usernames, lastReport, i, rounds, batch,
                   results, progress, v, report, raw, corrective, fnIn, fnOut,
                   printed>>

\* lines 109-115, and for a task of processInBatches the .then of lines 133-136
Close(f) ==
    /\ fetches[f].pc = "closing"
    /\ fetches' = [fetches EXCEPT
          ![f].pc = "done",
          ![f].browser = "closed",
          ![f].result = Some(Outcome(fetches[f].username, fetches[f].data))]
    /\ progress' = IF IsBatch(f)
                   THEN [value |-> progress.value + 1, username |-> fetches[f].username]
                   ELSE progress
    /\ UNCHANGED <<mainPc, config, usernames, lastReport, i, rounds, batch,
                   results, retryLog, v, report, raw, corrective, fnIn, fnOut,
                   printed>>

----------------------------------------------------------------------------
(* processInBatches *)

\* Array.prototype.slice(start, end): the positions (1-based) it selects.
RelIndex(k, len) == IF k < 0 THEN Max(len + k, 0) ELSE Min(k, len)

Slice(len, start, end) ==
    LET from == RelIndex(start, len)
        to == RelIndex(end, len)
    IN  [k \in 1..Max(to - from, 0) |-> from + k]

\* line 138: results.push(...(await Promise.all(batch)))
PushResults_Front(res, outcomes) == outcomes \o res
PushResults(res, outcomes) == res \o outcomes

\* The value an await of the call yields (the awaiting code runs only once the
\* call has resolved; a call that has not has no outcome to give)
Awaited(c) ==
    IF c.result = <<>> THEN [username |-> c.username, error |-> "pending"]
    ELSE c.result[1]

\* The calls of `ids` that have resolved are consumed by the code awaiting them
Consume(fs, ids) ==
    [f \in DOMAIN fs \ {g \in ids : fs[g].pc = "done"} |-> fs[f]]

\* Promise.all(batch) resolves when every task has resolved
AllResolved_ButLast(b) ==
    \A k \in 1..Len(b) - 1 : Settled(BatchId(b[k]))
AllResolved_Any(b) == b = <<>> \/ \E k \in 1..Len(b) : Settled(BatchId(b[k]))
AllResolved(b) == \A k \in 1..Len(b) : Settled(BatchId(b[k]))

\* lines 131-137: the loop condition and, when it holds, the tasks of the next
\* chunk, all started before the await of line 138; line 142 when it fails.
LoopFrom(iNew, res, fs) ==
    IF iNew < Len(usernames')
    THEN LET chunk == Slice(Len(usernames'), iNew, iNew + config'.batchSize)
             started == {BatchId(chunk[k]) : k \in 1..Len(chunk)}
         IN /\ rounds < MaxRounds
            /\ rounds' = rounds + 1
            /\ batch' = chunk
            /\ fetches' = [f \in DOMAIN fs \cup started |->
                             IF f \in started
                             THEN NewFetch(usernames'[f[2]], config'.retries,
                                           NoLogPath, rounds + 1)
                             ELSE fs[f]]
            /\ mainPc' = "batch"
            /\ UNCHANGED raw
    ELSE /\ mainPc' = "batchDone"
         /\ batch' = <<>>
         /\ fetches' = fs
         /\ raw' = res
         /\ UNCHANGED rounds

\* line 138 once Promise.all has resolved, then the next iteration
ChunkJoin ==
    /\ mainPc = "batch"
    /\ AllResolved(batch)
    /\ results' = PushResults(results,
                     [k \in 1..Len(batch) |-> Awaited(fetches[BatchId(batch[k])])])
    /\ i' = i + config.batchSize
    /\ UNCHANGED <<config, usernames>>
    /\ LoopFrom(i', results',
                Consume(fetches, {BatchId(batch[k]) : k \in 1..Len(batch)}))
    /\ UNCHANGED <<lastReport, progress, retryLog, v, report, corrective,
                   fnIn, fnOut,
                   printed>>

----------------------------------------------------------------------------
(* loadLastReport: the reports folder holds no report, or the report of an
   earlier run over the first names of the list. *)

\* line 290: new Date(); lines 225-228: the Date of a previous report
RunTimestamp == "now"
PrevTimestamp == "earlier"

PrevSuccess(username, p) ==
    [username |-> username, followers |-> 10, likes |-> 4, totalViews |-> p,
     totalVideos |-> p, videos |-> [j \in 1..p |-> 1]]

\* alice had 8 videos, bob 7, carol was an error entry; nobody else was listed
PrevReport ==
    [timestamp |-> PrevTimestamp,
     results |-> <<PrevSuccess(Names[1], 8), PrevSuccess(Names[2], 7),
                   [username |-> Names[3], error |-> FailedError]>>,
     totals |-> [totalUsers |-> 3, totalVideos |-> 15, totalFollowers |-> 20,
                 totalLikes |-> 8, totalViews |-> 15]]

\* the same, but carol was a profile with 8 videos
PrevReport2 ==
    [timestamp |-> PrevTimestamp,
     results |-> <<PrevSuccess(Names[1], 8), PrevSuccess(Names[2], 7),
                   PrevSuccess(Names[3], 8)>>,
     totals |-> [totalUsers |-> 3, totalVideos |-> 23, totalFollowers |-> 30,
                 totalLikes |-> 12, totalViews |-> 23]]

LastReports == {Undefined, Some(PrevReport)}

----------------------------------------------------------------------------
(* main, lines 270-305: everything up to the first await *)

\* What a run finds: config.json, the first n names of the list in the
\* usernames file, and the reports folder. The report in which every name was
\* a profile is met by one run, of all the names; a config.json that sets a
\* regressionTolerance by one run, of alice and bob.
RunInputs ==
    [file : ConfigFiles, n : 0..MaxUsers, last : LastReports]
    \cup [file : {[retries |-> 1, batchSize |-> 2]}, n : {MaxUsers},
          last : {Some(PrevReport2)}]
    \cup [file : {[retries |-> 1, batchSize |-> 2, regressionTolerance |-> 2]},
          n : {2}, last : {Some(PrevReport)}]

NoUsernames_Never(list) == FALSE

\* line 281: usernames.length === 0
NoUsernames(list) == Len(list) = 0

\* line 282
NoUsernamesMessage == "No usernames found. Exiting..."

MainStart ==
    /\ mainPc = "start"
    /\ \E run \in RunInputs :
         /\ config' = loadConfig(run.file)
         /\ usernames' = SubSeq(Names, 1, run.n)
         /\ IF NoUsernames(usernames')
            THEN /\ mainPc' = "exit1"
                 /\ printed' = [exitCode |-> 1, error |-> NoUsernamesMessage]
                 /\ UNCHANGED <<lastReport, i, rounds, batch, fetches, raw>>
            ELSE /\ lastReport' = run.last
                 /\ i' = 0
                 /\ LoopFrom(0, <<>>, fetches)
                 /\ UNCHANGED printed
    /\ retryLog' = <<>>
    /\ UNCHANGED <<results, progress, v, report, corrective, fnIn, fnOut>>

----------------------------------------------------------------------------
(* validateVideoCounts *)

\* lines 240-243: previousResults[username], undefined when the last report
\* has no entry of that name or the entry has no totalVideos
PreviousVideos(rep, username) ==
    LET idx == {k \in 1..Len(rep.results) : rep.results[k].username = username}
    IN  IF idx = {} THEN Undefined
        ELSE LET k == CHOOSE m \in idx : \A o \in idx : o <= m
             IN  IF "totalVideos" \in DOMAIN rep.results[k]
                 THEN Some(rep.results[k].totalVideos) ELSE Undefined

Flagged_Le(user, rep) ==
    /\ ~IsError(user)
    /\ PreviousVideos(rep, user.username) # Undefined
    /\ user.totalVideos + videoBufferCount <= PreviousVideos(rep, user.username)[1]

Flagged_NoTolerance(user, rep) ==
    /\ ~IsError(user)
    /\ PreviousVideos(rep, user.username) # Undefined
    /\ user.totalVideos < PreviousVideos(rep, user.username)[1]

\* lines 246-248
Flagged(user, rep) ==
    /\ ~IsError(user)
    /\ PreviousVideos(rep, user.username) # Undefined
    /\ user.totalVideos + videoBufferCount < PreviousVideos(rep, user.username)[1]

Corrected_Always(retryResult, previousVideos) == TRUE

\* What replacing by every successful re-read would give.
Corrected_AnySuccess(retryResult, previousVideos) == ~IsError(retryResult)

Corrected_Gt(retryResult, previousVideos) ==
    ~IsError(retryResult) /\ retryResult.totalVideos > previousVideos

\* line 254
Corrected(retryResult, previousVideos) ==
    ~IsError(retryResult) /\ retryResult.totalVideos >= previousVideos

Assign_CountOnly(user, retryResult) ==
    [k \in DOMAIN user |->
        IF k = "totalVideos" /\ k \in DOMAIN retryResult
        THEN retryResult[k] ELSE user[k]]

\* line 255: Object.assign(user, retryResult)
Assign(user, retryResult) ==
    [k \in DOMAIN user \cup DOMAIN retryResult |->
        IF k \in DOMAIN retryResult THEN retryResult[k] ELSE user[k]]

\* lines 245-266 from entry number `from` on: run to the next await (line 253)
\* or to the return
ValidateFrom(from, res, fs, corr) ==
    LET flagged == {k \in from..Len(res) : Flagged(res[k], lastReport[1])}
    IN  IF flagged = {}
        THEN /\ mainPc' = "totals"
             /\ v' = Len(res) + 1
             /\ fetches' = fs
             /\ corrective' = corr
        ELSE LET k == CHOOSE m \in flagged : \A o \in flagged : m <= o
             IN /\ mainPc' = "validate"
                /\ v' = k
                /\ corrective' = Append(corr, [pos |-> k,
                                               retries |-> Some(CorrectiveRetries),
                                               result |-> <<>>, warned |-> FALSE])
                /\ fetches' = [f \in DOMAIN fs \cup {RetryId(k)} |->
                                 IF f = RetryId(k)
                                 THEN NewFetch(res[k].username, Some(CorrectiveRetries),
                                               LogFilePath, 0)
                                 ELSE fs[f]]

\* line 238: if (!lastReport) return results
NoLastReport(rep) == rep = Undefined

ReturnResults_Empty(res) == <<>>

\* line 238: ... return results, the array it was given
ReturnResults(res) == res

\* lines 307, 235-245
ValidateVideoCounts ==
    /\ mainPc = "batchDone"
    /\ IF NoLastReport(lastReport)
       THEN /\ mainPc' = "totals"
            /\ results' = ReturnResults(results)
            /\ UNCHANGED <<v, fetches, corrective>>
       ELSE /\ ValidateFrom(1, results, fetches, corrective)
            /\ UNCHANGED results
    /\ UNCHANGED <<config, usernames, lastReport, i, rounds, batch,
                   progress, retryLog, report, raw, fnIn, fnOut,
                   printed>>

\* lines 253-264: the corrective call has resolved
CorrectiveSettles ==
    /\ mainPc = "validate"
    /\ Settled(RetryId(v))
    /\ LET retryResult == Awaited(fetches[RetryId(v)])
           previousVideos == PreviousVideos(lastReport[1], results[v].username)[1]
       IN  /\ results' = IF Corrected(retryResult, previousVideos)
                          THEN [results EXCEPT ![v] = Assign(@, retryResult)]
                          ELSE results
           /\ ValidateFrom(v + 1, results', Consume(fetches, {RetryId(v)}),
                           [corrective EXCEPT
                               ![Len(corrective)].result = Some(retryResult),
                               ![Len(corrective)].warned =
                                   ~Corrected(retryResult, previousVideos)])
    /\ UNCHANGED <<config, usernames, lastReport, i, rounds, batch,
                   progress, retryLog, report, raw, fnIn, fnOut,
                   printed>>

----------------------------------------------------------------------------
(* main, lines 313-360: totals and the report file *)

RECURSIVE SumField(_, _)
SumField(res, field) ==
    IF res = <<>> THEN 0
    ELSE (IF field \in DOMAIN Head(res) THEN Head(res)[field] ELSE 0)
         + SumField(Tail(res), field)

TotalsFields ==
    {"totalUsers", "totalVideos", "totalFollowers", "totalLikes", "totalViews"}

Totals_LikesAsFollowers(res) ==
    [totalUsers |-> Len(usernames),
     totalVideos |-> SumField(res, "totalVideos"),
     totalFollowers |-> SumField(res, "likes"),
     totalLikes |-> SumField(res, "likes"),
     totalViews |-> SumField(res, "totalViews")]

\* lines 313-331
Totals(res) ==
    [totalUsers |-> Len(usernames),
     totalVideos |-> SumField(res, "totalVideos"),
     totalFollowers |-> SumField(res, "followers"),
     totalLikes |-> SumField(res, "likes"),
     totalViews |-> SumField(res, "totalViews")]

\* lines 177-181. The text is kept as its parts: the digits before the point,
\* the one digit toFixed(1) puts after it (none for a value below 1000) and the
\* suffix. toFixed rounds to the nearest tenth, the larger one on a tie.
ToFixed1(value, unit) ==
    LET tenths == (10 * value + unit \div 2) \div unit
    IN  [int |-> tenths \div 10, frac |-> Some(tenths % 10)]

formatNumber(value) ==
    IF value >= 1000000
    THEN [digits |-> ToFixed1(value, 1000000), suffix |-> "M"]
    ELSE IF value >= 1000
         THEN [digits |-> ToFixed1(value, 1000), suffix |-> "K"]
         ELSE [digits |-> [int |-> value, frac |-> Undefined], suffix |-> ""]

\* lines 198, 202: user[metric] || 0
Metric(user, metric) == IF metric \in DOMAIN user THEN user[metric] ELSE 0

FilterSuccess_All(res) == res

\* line 197: .filter((user) => !user.error), a new array
FilterSuccess(res) == SelectSeq(res, LAMBDA user : ~IsError(user))

Compare_Ascending(a, b, metric) == Metric(a, metric) - Metric(b, metric)

\* line 198: the comparator (a, b) => (b[metric] || 0) - (a[metric] || 0)
Compare(a, b, metric) == Metric(b, metric) - Metric(a, metric)

InsertSorted_BeforeTies(sorted, user, metric) ==
    LET before == {j \in 1..Len(sorted) : Compare(sorted[j], user, metric) < 0}
        n == Cardinality(before)
    IN  SubSeq(sorted, 1, n) \o <<user>> \o SubSeq(sorted, n + 1, Len(sorted))

\* Array.prototype.sort is stable: an element goes behind every element the
\* comparator does not put after it, those it compares equal to included.
InsertSorted(sorted, user, metric) ==
    LET before == {j \in 1..Len(sorted) : Compare(sorted[j], user, metric) <= 0}
        n == Cardinality(before)
    IN  SubSeq(sorted, 1, n) \o <<user>> \o SubSeq(sorted, n + 1, Len(sorted))

\* line 198: .sort(comparator)
RECURSIVE Sort(_, _)
Sort(arr, metric) ==
    IF arr = <<>> THEN <<>>
    ELSE InsertSorted(Sort(SubSeq(arr, 1, Len(arr) - 1), metric),
                      arr[Len(arr)], metric)

\* line 195: count = 5 applies when the argument is undefined
DefaultCount == 5
Count(rankLimit) == IF rankLimit = Undefined THEN DefaultCount ELSE rankLimit[1]

\* lines 195-205. The returned text is kept as the sequence of its lines, each
\* line as its three parts.
getTopUsers(res, metric, rankLimit) ==
    LET sorted == Sort(FilterSuccess(res), metric)
        top == Slice(Len(sorted), 0, Count(rankLimit))
    IN  [index \in 1..Len(top) |->
            [rank |-> index,
             username |-> sorted[top[index]].username,
             value |-> formatNumber(Metric(sorted[top[index]], metric))]]

\* lines 196-198: filter returns a new array and sort orders that one, so the
\* array passed in is as it was
ArgumentAfterGetTopUsers(res) == res

Highest_FromRaw(res, rankLimit) ==
    [topUsersByFollowers |-> getTopUsers(raw, "followers", rankLimit),
     topUsersByViews |-> getTopUsers(raw, "totalViews", rankLimit),
     topUsersByLikes |-> getTopUsers(raw, "likes", rankLimit)]

\* lines 338-340, 352-356
Highest(res, rankLimit) ==
    [topUsersByFollowers |-> getTopUsers(res, "followers", rankLimit),
     topUsersByViews |-> getTopUsers(res, "totalViews", rankLimit),
     topUsersByLikes |-> getTopUsers(res, "likes", rankLimit)]

calculateDifferences_Reversed(current, previous) ==
    [f \in DOMAIN current |->
        (IF f \in DOMAIN previous THEN previous[f] ELSE 0) - current[f]]

\* lines 184-192: previous.field || 0 is 0 for a field the record lacks
calculateDifferences(current, previous) ==
    [f \in {"totalUsers", "totalVideos", "totalFollowers", "totalLikes",
            "totalViews"} |->
        current[f] - (IF f \in DOMAIN previous THEN previous[f] ELSE 0)]

\* lines 333-336: null unless a last report was loaded
Differences(totals, last) ==
    IF last = Undefined THEN Undefined
    ELSE Some(calculateDifferences(totals, last[1].totals))

\* lines 366-390: (${differences?.f >= 0 ? '+' : ''}${differences?.f || 0}),
\* the number passed through formatNumber for followers, likes and views
PrintedDelta(differences, field) ==
    LET number == IF differences = Undefined THEN 0 ELSE differences[1][field]
    IN  [sign |-> IF differences # Undefined /\ differences[1][field] >= 0
                  THEN "+" ELSE "",
         text |-> IF field \in {"totalUsers", "totalVideos"}
                  THEN [digits |-> [int |-> number, frac |-> Undefined],
                        suffix |-> ""]
                  ELSE formatNumber(number)]

\* lines 342-358: outputData
OutputData(res, totals, highest) ==
    [timestamp |-> RunTimestamp, results |-> res, totals |-> totals,
     highest |-> highest]

\* lines 313-400: totals, differences, rankings, the report file, the summary
WriteReport ==
    /\ mainPc = "totals"
    /\ LET totals == Totals(results)
           differences == Differences(totals, lastReport)
       IN  /\ report' = Some(OutputData(results, totals,
                                        Highest(results, config.rankLimit)))
           /\ printed' = [exitCode |-> 0,
                          differences |-> differences,
                          deltas |-> [f \in TotalsFields |->
                                         PrintedDelta(differences, f)],
                          firstReport |-> lastReport = Undefined]
    /\ mainPc' = "written"
    /\ UNCHANGED <<config, usernames, lastReport, i, rounds, batch, fetches,
                   results, progress, retryLog, v, raw, corrective, fnIn, fnOut>>

----------------------------------------------------------------------------

MainInit ==
    /\ mainPc = "start"
    /\ config = [retries |-> Undefined, rankLimit |-> Undefined,
                 regressionTolerance |-> Undefined, batchSize |-> 0]
    /\ usernames = <<>>
    /\ lastReport = Undefined
    /\ i = 0
    /\ rounds = 0
    /\ batch = <<>>
    /\ fetches = <<>>
    /\ results = <<>>
    /\ progress = [value |-> 0, username |-> ""]
    /\ retryLog = <<>>
    /\ v = 0
    /\ report = <<>>
    /\ raw = <<>>
    /\ corrective = <<>>
    /\ printed = <<>>

Init ==
    /\ MainInit
    /\ fnIn = <<>>
    /\ fnOut = <<>>

Next ==
    \/ MainStart
    \/ \E f \in DOMAIN fetches : BeginAttempt(f)
    \/ \E f \in DOMAIN fetches : AttemptSettles(f)
    \/ \E f \in DOMAIN fetches : Close(f)
    \/ ChunkJoin
    \/ ValidateVideoCounts
    \/ CorrectiveSettles
    \/ WriteReport

Spec == Init /\ [][Next]_vars

----------------------------------------------------------------------------
(* getTopUsers and calculateDifferences on their own: the program stays in its
   initial state, the function is applied once to arguments drawn from the
   sets below. *)

mainVars == <<mainPc, config, usernames, lastReport, i, rounds, batch, fetches,
              results, progress, retryLog, v, report, raw, corrective, printed>>

MaxRankUsers == 4
MaxRankLimit == 2

\* What a profile read with success shows; 0 views and a value formatNumber
\* shortens are among them, and two profiles can show the same value.
RankProfiles ==
    {[followers |-> 10, likes |-> 4, totalViews |-> 8],
     [followers |-> 20, likes |-> 4, totalViews |-> 0],
     [followers |-> 1500, likes |-> 6, totalViews |-> 8]}

\* lines 111-115: entry k of a results array, an error entry or a profile
RankEntry(k, kind) ==
    IF IsError(kind)
    THEN [username |-> Names[k], error |-> FailedError]
    ELSE [username |-> Names[k], followers |-> kind.followers,
          likes |-> kind.likes, totalViews |-> kind.totalViews,
          totalVideos |-> 1, videos |-> <<kind.totalViews>>]

RankLists ==
    UNION {{[k \in 1..n |-> RankEntry(k, kinds[k])] :
               kinds \in [1..n -> RankProfiles \cup {[error |-> FailedError]}]} :
           n \in 0..MaxRankUsers}

\* lines 338-340: the three metrics; rankLimit is undefined when config.json
\* has none
RankMetrics == {"followers", "totalViews", "likes"}
RankLimits == {Undefined} \cup {Some(k) : k \in 1..MaxRankLimit}

RankInit ==
    /\ MainInit
    /\ fnIn \in [results : RankLists, metric : RankMetrics, rankLimit : RankLimits]
    /\ fnOut = Undefined

CallGetTopUsers ==
    /\ fnOut = Undefined
    /\ fnOut' = Some([ranking |-> getTopUsers(fnIn.results, fnIn.metric,
                                               fnIn.rankLimit),
                      results |-> ArgumentAfterGetTopUsers(fnIn.results)])
    /\ UNCHANGED <<fnIn, mainVars>>

RankNext == CallGetTopUsers

SpecRank == RankInit /\ [][RankNext]_vars

\* lines 313-335: the totals of this run, and the totals record of a previous
\* report, which may lack any of the fields
CurrentValues == {420, 500}
PreviousValues == {420, 600}

DiffInit ==
    /\ MainInit
    /\ fnIn \in [current : [TotalsFields -> CurrentValues],
                 previous : UNION {[present -> PreviousValues] :
                                      present \in SUBSET TotalsFields}]
    /\ fnOut = Undefined

CallCalculateDifferences ==
    /\ fnOut = Undefined
    /\ fnOut' = Some(calculateDifferences(fnIn.current, fnIn.previous))
    /\ UNCHANGED <<fnIn, mainVars>>

DiffNext == CallCalculateDifferences

SpecDiff == DiffInit /\ [][DiffNext]_vars

----------------------------------------------------------------------------
(* loadLastReport on its own. A file of the reports folder is known by the time
   its name embeds (names of report files sort by it), by whether the name has
   the form tiktok_results_*.json, and by what it holds:
     valid         a JSON object whose timestamp is a date
     noTimestamp   a JSON object without timestamp
     badTimestamp  a JSON object whose timestamp is not a date
     notJson       text JSON.parse rejects (an empty or truncated file) *)

MaxFiles == 3

FileContents == {"valid", "noTimestamp", "badTimestamp", "notJson"}

Folders ==
    UNION {{{[stamp |-> k, isReportName |-> f[k].isReportName,
              content |-> f[k].content] : k \in 1..n} :
               f \in [1..n -> [isReportName : BOOLEAN, content : FileContents]]} :
           n \in 0..MaxFiles}

\* lines 209-214: readdirSync, filter by name, sort
RECURSIVE SortByName(_)
SortByName(files) ==
    IF files = {} THEN <<>>
    ELSE LET last == CHOOSE f \in files : \A g \in files : g.stamp <= f.stamp
         IN  Append(SortByName(files \ {last}), last)

ReportFiles(folder) == SortByName({f \in folder : f.isReportName})

\* line 220: JSON.parse(fs.readFileSync(filePath, 'utf-8')) throws
ParseThrows(content) == content = "notJson"

\* lines 222-225: report.timestamp is there and new Date of it is a date
HasTimestamp(content) == content = "valid"

\* lines 218-229, from file number k down; lines 231-232 when k is 0
RECURSIVE ScanFrom(_, _)
ScanFrom(reportFiles, k) ==
    IF k = 0 THEN [threw |-> FALSE, report |-> Undefined]
    ELSE IF ParseThrows(reportFiles[k].content)
         THEN [threw |-> TRUE, report |-> Undefined]
         ELSE IF HasTimestamp(reportFiles[k].content)
              THEN [threw |-> FALSE, report |-> Some(reportFiles[k].stamp)]
              ELSE ScanFrom(reportFiles, k - 1)

\* What looking at the oldest report file alone would give.
loadLastReport_OldestOnly(folder) ==
    ScanFrom(ReportFiles(folder), Min(1, Len(ReportFiles(folder))))

\* lines 208-233; the report returned is named by the time of its file
loadLastReport(folder) ==
    ScanFrom(ReportFiles(folder), Len(ReportFiles(folder)))

LastInit ==
    /\ MainInit
    /\ fnIn \in Folders
    /\ fnOut = Undefined

CallLoadLastReport ==
    /\ fnOut = Undefined
    /\ fnOut' = Some(loadLastReport(fnIn))
    /\ UNCHANGED <<fnIn, mainVars>>

LastNext == CallLoadLastReport

SpecLast == LastInit /\ [][LastNext]_vars

\* ---------------------------------------------------------------------------
\* readUsernamesFromFile (lines 157-174) on its own: the file is a sequence of
\* characters, a line a sequence of characters.
\* ---------------------------------------------------------------------------
MaxChars == 6

Chars == {"a", "b", " ", "\n"}

FileTexts == UNION {[1..n -> Chars] : n \in 0..MaxChars}

UsernameFiles == {[unreadable |-> TRUE]} \cup [data : FileTexts]

\* data.split('\n'): the text between the line feeds, one line more than
\* there are line feeds.
RECURSIVE Split(_)
Split(data) ==
    IF data = <<>> THEN << <<>> >>
    ELSE LET rest == Split(Tail(data))
         IN  IF Head(data) = "\n" THEN << <<>> >> \o rest
             ELSE << <<Head(data)>> \o Head(rest) >> \o Tail(rest)

RECURSIVE TrimStart(_)
TrimStart(line) ==
    IF line # <<>> /\ Head(line) = " " THEN TrimStart(Tail(line)) ELSE line

RECURSIVE TrimEnd(_)
TrimEnd(line) ==
    IF line # <<>> /\ line[Len(line)] = " "
    THEN TrimEnd(SubSeq(line, 1, Len(line) - 1)) ELSE line

\* line.trim()
Trim(line) == TrimEnd(TrimStart(line))

MapTrim(lines) == [k \in 1..Len(lines) |-> Trim(lines[k])]

\* .filter(Boolean): the empty string is the one falsy string.
FilterBoolean(lines) == SelectSeq(lines, LAMBDA l : l # <<>>)

InSeq(x, seq) == \E k \in 1..Len(seq) : seq[k] = x

\* What keeping the last of equal lines instead of the first would give.
RECURSIVE ArrayFromSet_KeepLast(_)
ArrayFromSet_KeepLast(lines) ==
    IF lines = <<>> THEN <<>>
    ELSE IF InSeq(Head(lines), Tail(lines))
         THEN ArrayFromSet_KeepLast(Tail(lines))
         ELSE <<Head(lines)>> \o ArrayFromSet_KeepLast(Tail(lines))

\* What no removal of duplicates would give.
ArrayFromSet_KeepAll(lines) == lines

RECURSIVE SetAdd(_, _)
SetAdd(lines, acc) ==
    IF lines = <<>> THEN acc
    ELSE SetAdd(Tail(lines),
                IF InSeq(Head(lines), acc) THEN acc
                ELSE Append(acc, Head(lines)))

\* Array.from(new Set(lines)): a Set keeps its elements in insertion order
\* and ignores the insertion of an element it holds.
ArrayFromSet(lines) == SetAdd(lines, <<>>)

readUsernamesFromFile(file) ==
    IF "unreadable" \in DOMAIN file THEN <<>>
    ELSE ArrayFromSet(FilterBoolean(MapTrim(Split(file.data))))

\* The file that holds the given names, one per line.
RECURSIVE Join(_)
Join(names) ==
    IF names = <<>> THEN <<>>
    ELSE IF Len(names) = 1 THEN names[1]
         ELSE names[1] \o <<"\n">> \o Join(Tail(names))

ReadInit ==
    /\ MainInit
    /\ fnIn \in UsernameFiles
    /\ fnOut = Undefined

CallReadUsernamesFromFile ==
    /\ fnOut = Undefined
    /\ fnOut' = Some(readUsernamesFromFile(fnIn))
    /\ UNCHANGED <<fnIn, mainVars>>

ReadNext == CallReadUsernamesFromFile

SpecRead == ReadInit /\ [][ReadNext]_vars

\* ---------------------------------------------------------------------------
\* Runs of the program one after the other over one reports folder (main,
\* lines 289-290 and 342-360).  The files the folder holds at first bear the
\* times 1..MaxFiles in their names; the clock of a run reads a later time.
\* ---------------------------------------------------------------------------
MaxRuns == 3

\* lines 342-360: the file a run writes, tiktok_results_<now>.json with
\* timestamp: now.toISOString()
ReportFile(now) == [stamp |-> now, isReportName |-> TRUE, content |-> "valid"]

RunsInit ==
    /\ MainInit
    /\ fnIn \in Folders
    /\ fnOut = [folder |-> fnIn, now |-> MaxFiles, runs |-> 0, running |-> FALSE,
                loaded |-> [threw |-> FALSE, report |-> Undefined],
                wrote |-> Undefined, previous |-> Undefined]

\* lines 289-290: a run loads the last report, then reads the clock.
\* `previous` keeps what the run before it wrote; a run in which
\* loadLastReport throws ends there.
RunLoads ==
    /\ ~fnOut.running
    /\ fnOut.runs < MaxRuns
    /\ LET last == loadLastReport(fnOut.folder)
       IN  fnOut' = [fnOut EXCEPT !.loaded = last,
                                  !.now = @ + 1,
                                  !.runs = @ + 1,
                                  !.running = ~last.threw,
                                  !.previous = fnOut.wrote,
                                  !.wrote = Undefined]
    /\ UNCHANGED <<fnIn, mainVars>>

\* line 360: the run completes, writing its report.
RunWrites ==
    /\ fnOut.running
    /\ fnOut' = [fnOut EXCEPT !.folder = @ \cup {ReportFile(fnOut.now)},
                              !.wrote = Some(fnOut.now),
                              !.running = FALSE]
    /\ UNCHANGED <<fnIn, mainVars>>

\* The run ends before line 360, by a rejection of the batch phase.
RunAborts ==
    /\ fnOut.running
    /\ fnOut' = [fnOut EXCEPT !.running = FALSE]
    /\ UNCHANGED <<fnIn, mainVars>>

RunsNext == RunLoads \/ RunWrites \/ RunAborts

SpecRuns == RunsInit /\ [][RunsNext]_vars

\* ---------------------------------------------------------------------------
\* The loop of processInBatches (lines 131-139) on its own, for the batchSize
\* values loadConfig can return, whole or not.  Numbers are counted in halves:
\* an index or a batchSize x is held as 2x.
\* ---------------------------------------------------------------------------

\* How far below zero the index goes here, in halves.  The least index stands
\* for the double at which i += batchSize with a negative batchSize no longer
\* changes i (-2^53 for batchSize -1): from there on the loop repeats one state.
MaxDescent == 8

MinIndex == 0 - MaxDescent

\* batchSize as config.json gives it, in halves: -1, 0, 0.5, 1, 1.5, 2, or none.
BatchSizeFields == {-2, 0, 1, 2, 3, 4}

\* loadConfig on a parseable file, in halves: config.batchSize || 5
loadConfigBatchSize(field) ==
    IF field = Undefined \/ field[1] = 0 THEN 2 * DefaultBatchSize ELSE field[1]

BatchInputs ==
    [n : 0..MaxUsers,
     field : {Undefined} \cup {Some(b) : b \in BatchSizeFields}]

\* The integer slice makes of an index: the number without its fraction.
ToInteger(halves) ==
    IF halves >= 0 THEN halves \div 2 ELSE -((-halves) \div 2)

\* i += batchSize in double precision
AddAssign(halves, step) == Max(halves + step, MinIndex)

\* The loop from its condition to the await of line 138, or to the return.
BatchLoop(n, batchSize, iNew, res) ==
    IF iNew < 2 * n
    THEN LET chunk == Slice(n, ToInteger(iNew), ToInteger(iNew + batchSize))
         IN  [pc |-> "await", i |-> iNew, batchSize |-> batchSize, batch |-> chunk,
              pending |-> {chunk[k] : k \in 1..Len(chunk)}, results |-> res]
    ELSE [pc |-> "returned", i |-> iNew, batchSize |-> batchSize, batch |-> <<>>,
          pending |-> {}, results |-> res]

BatchInit ==
    /\ MainInit
    /\ fnIn \in BatchInputs
    /\ fnOut = BatchLoop(fnIn.n, loadConfigBatchSize(fnIn.field), 0, <<>>)

\* A task of the chunk settles: it resolves, or it rejects and Promise.all,
\* and with it processInBatches, rejects.
TaskSettles ==
    /\ fnOut.pc = "await"
    /\ \E k \in fnOut.pending, rejects \in BOOLEAN :
          fnOut' = IF rejects
                   THEN [fnOut EXCEPT !.pc = "rejected"]
                   ELSE [fnOut EXCEPT !.pending = @ \ {k}]
    /\ UNCHANGED <<fnIn, mainVars>>

\* Promise.all has resolved: push, i += batchSize, and the next iteration.
BatchJoin ==
    /\ fnOut.pc = "await"
    /\ fnOut.pending = {}
    /\ fnOut' = BatchLoop(fnIn.n, fnOut.batchSize,
                          AddAssign(fnOut.i, fnOut.batchSize),
                          fnOut.results \o fnOut.batch)
    /\ UNCHANGED <<fnIn, mainVars>>

BatchNext == TaskSettles \/ BatchJoin

\* Every task that was started settles, and a resolved Promise.all is
\* continued from.
SpecBatch == BatchInit /\ [][BatchNext]_vars /\ WF_vars(BatchNext)

----------------------------------------------------------------------------
(* Properties *)

BatchFetches == {f \in DOMAIN fetches : IsBatch(f)}
InFlightCount == Cardinality({f \in BatchFetches : InFlight(f)})
ErrorKinds == {"timeout", "notExists", "otherError"}

\* C1: when processInBatches returns, results has one outcome per username and
\* the outcome at position k is that of the username at input position k,
\* whatever the batch size and the order in which the tasks completed.
C1_ResultsInInputOrder ==
    mainPc = "batchDone" =>
        /\ Len(results) = Len(usernames)
        /\ \A k \in 1..Len(results) : results[k].username = usernames[k]

\* processInBatches has returned three or more outcomes; the task of the first
\* position was the last of a chunk of two or more to complete.
C1_Witness ==
    /\ mainPc = "batchDone"
    /\ Len(results) >= 3
    /\ rounds = 1
    /\ progress.username = usernames[1]
    /\ \E k \in 1..Len(results) : IsError(results[k])
    /\ \E k \in 1..Len(results) : ~IsError(results[k])

\* C2: during the batch phase the number of calls in flight is at most batchSize
\* (a batchSize below 1 read as allowing none).
C2_AtMostBatchSizeInFlight ==
    mainPc = "batch" => InFlightCount <= Max(config.batchSize, 0)

\* C3: no task of a later chunk exists while a task of an earlier chunk has not
\* resolved: the tasks awaited at any time all belong to the current chunk.
C3_ChunkBarrier ==
    \A f \in BatchFetches, g \in BatchFetches :
        fetches[f].round < fetches[g].round => Settled(f) /\ ~InFlight(f)

\* A task of the second or a later chunk is in flight, the first chunk's
\* outcomes are in results.
C3_Witness ==
    \E f \in BatchFetches :
        /\ fetches[f].round >= 2
        /\ InFlight(f)
        /\ fetches[f].attempts >= 1
        /\ Len(results) >= 1

\* C4: a task of a chunk that failed (error, timeout, not found) does not abort
\* the chunk: its siblings' outcomes still reach the returned sequence.
C4_FailureDoesNotAbortSiblings ==
    \A f \in BatchFetches, g \in BatchFetches :
        (f # g /\ fetches[f].round = fetches[g].round
              /\ fetches[f].last \in ErrorKinds)
        => mainPc # "aborted"

\* C5: a run over a non-empty list that has ended has written its report, with
\* one entry per identifier, whatever the fetches ended in.
C5_RunWritesReport ==
    (usernames # <<>> /\ mainPc \in {"written", "aborted"})
    => /\ report # <<>>
       /\ Len(report[1].results) = Len(usernames)

\* C6: a call whose first attempt found the profile absent ends there: one
\* attempt, no retry, and an outcome that is told apart from exhausted retries.
C6_NotFoundIsTerminal ==
    \A f \in DOMAIN fetches :
        (fetches[f].last = "notExists" /\ fetches[f].attempts = 1)
        => /\ fetches[f].pc \in {"closing", "done"}
           /\ fetches[f].pc = "done" =>
                 /\ IsError(fetches[f].result[1])
                 /\ fetches[f].result[1].error # FailedError

\* C7: after an attempt that ended in a transient error (a timeout, a missing
\* element), with attempts left, the loop goes on to another attempt.
C7_TransientErrorRetried ==
    \A f \in DOMAIN fetches :
        (fetches[f].last \in {"timeout", "otherError"}
            /\ LoopCond(fetches[f].attempts, fetches[f].retries))
        => fetches[f].pc = "loop"

\* C8: an attempt that extracted an empty video list does not end the call while
\* attempts remain, and a call whose last extraction was empty returns an error.
C8_EmptyVideosRetried ==
    \A f \in DOMAIN fetches :
        fetches[f].last = "empty"
        => /\ LoopCond(fetches[f].attempts, fetches[f].retries)
                 => fetches[f].pc = "loop"
           /\ fetches[f].pc = "done" => IsError(fetches[f].result[1])

\* A second attempt is under way after a first one that extracted no video.
C8_Witness ==
    \E f \in DOMAIN fetches :
        /\ fetches[f].pc = "attempting"
        /\ fetches[f].attempts = 2
        /\ fetches[f].data # <<>>
        /\ Len(fetches[f].data[1].videos) = 0

\* C9: the first attempt that extracts a non-empty video list ends the loop: the
\* call makes no further attempt and resolves with that attempt's data.
C9_SuccessShortCircuits ==
    \A f \in DOMAIN fetches :
        fetches[f].last = "videos"
        => /\ fetches[f].pc \in {"closing", "done"}
           /\ fetches[f].pc = "done" =>
                 /\ ~IsError(fetches[f].result[1])
                 /\ fetches[f].result[1].videos = fetches[f].data[1].videos
                 /\ fetches[f].result[1].totalVideos > 0

\* A call has resolved with data from its first attempt, with attempts unused.
C9_Witness ==
    \E f \in DOMAIN fetches :
        /\ fetches[f].last = "videos"
        /\ fetches[f].pc = "done"
        /\ fetches[f].attempts = 1
        /\ LoopCond(fetches[f].attempts, fetches[f].retries)

\* C10: a call makes at most `retries` attempts, and once all of them are used
\* without a non-empty extraction it returns a Failed outcome.
C10_ExhaustedReturnsFailed ==
    \A f \in DOMAIN fetches :
        fetches[f].retries # Undefined
        => /\ fetches[f].attempts <= fetches[f].retries[1]
           /\ (fetches[f].attempts = fetches[f].retries[1]
                  /\ fetches[f].last \in ErrorKinds \cup {"empty"})
              => /\ fetches[f].pc \in {"closing", "done"}
                 /\ fetches[f].pc = "done" => IsError(fetches[f].result[1])

\* C11: a call that has ended, by returning or by rejecting, has released the
\* browser session it launched; so once every call of a run has ended no
\* session is open.
C11_SessionReleasedOnEveryExit ==
    \A f \in DOMAIN fetches :
        fetches[f].pc \in {"done", "rejected"} => fetches[f].browser = "closed"

\* C12: when no previous report was loaded, the array validateVideoCounts
\* returns is the one processInBatches returned, entry for entry, and no
\* corrective call was issued.
C12_NoReportNoValidation ==
    (lastReport = Undefined /\ mainPc \in {"validate", "totals", "written"})
    => /\ results = raw
       /\ corrective = <<>>
       /\ \A f \in DOMAIN fetches : IsBatch(f)

\* validateVideoCounts has returned in a run without a previous report whose
\* batch produced both a profile with videos and an error entry.
C12_Witness ==
    /\ lastReport = Undefined
    /\ mainPc = "totals"
    /\ \E k \in 1..Len(results) : ~IsError(results[k])
    /\ \E k \in 1..Len(results) : IsError(results[k])

\* The entries of the previous report that are profiles read with success and
\* carry the username of entry k of the array processInBatches returned.
PreviousSuccesses(k) ==
    {p \in 1..Len(lastReport[1].results) :
        /\ lastReport[1].results[p].username = raw[k].username
        /\ ~IsError(lastReport[1].results[p])}

\* Entry k was read with success, was read with success in the previous report
\* too, and its video count plus the tolerance of 5 is below the previous count.
DroppedBeyondTolerance(k) ==
    /\ ~IsError(raw[k])
    /\ \E p \in PreviousSuccesses(k) :
          raw[k].totalVideos + 5 < lastReport[1].results[p].totalVideos

\* The corrective calls issued so far for entry k.
CorrectiveCalls(k) == {c \in 1..Len(corrective) : corrective[c].pos = k}

\* The entries validateVideoCounts has examined so far.
Examined ==
    IF mainPc = "validate" THEN 1..v
    ELSE IF mainPc \in {"totals", "written"} THEN 1..Len(raw)
    ELSE {}

\* C13: with a previous report, validateVideoCounts issues a corrective call
\* for an entry exactly when the entry is a success, the previous report has a
\* success of the same username, and the count plus 5 is below the previous
\* count; it issues one such call per entry, with retries = 1.
C13_RefetchIffDropped ==
    lastReport # Undefined =>
        /\ \A k \in Examined :
              Cardinality(CorrectiveCalls(k)) =
                  IF DroppedBeyondTolerance(k) THEN 1 ELSE 0
        /\ \A c \in 1..Len(corrective) :
              /\ corrective[c].pos \in Examined
              /\ corrective[c].retries = <<1>>
        /\ \A f \in DOMAIN fetches :
              ~IsBatch(f) => /\ f = RetryId(v)
                             /\ fetches[f].retries = <<1>>
                             /\ fetches[f].username = raw[v].username

\* validateVideoCounts has examined a list holding an entry 5 below its
\* previous count, for which no call was made, and an entry 6 below, for which
\* the corrective call has returned.
C13_Witness ==
    /\ lastReport # Undefined
    /\ mainPc = "totals"
    /\ \E k \in 1..Len(raw) :
          /\ DroppedBeyondTolerance(k)
          /\ \E c \in CorrectiveCalls(k) : corrective[c].result # <<>>
    /\ \E k \in 1..Len(raw) :
          /\ ~IsError(raw[k])
          /\ \E p \in PreviousSuccesses(k) :
                raw[k].totalVideos + 5 = lastReport[1].results[p].totalVideos
          /\ CorrectiveCalls(k) = {}

\* The video count the previous report holds for the username of entry k.
PreviousCount(k) ==
    LET p == CHOOSE q \in PreviousSuccesses(k) : TRUE
    IN  lastReport[1].results[p].totalVideos

\* C14: once the corrective call for an entry has returned, the entry is the
\* returned outcome if that is a success with at least the previous count of
\* videos; otherwise the entry is the one processInBatches returned, field for
\* field, and a warning was printed.
C14_ReplaceOrKeep ==
    \A c \in 1..Len(corrective) :
        corrective[c].result # <<>> =>
            LET k == corrective[c].pos
                retryResult == corrective[c].result[1]
            IN  IF /\ ~IsError(retryResult)
                   /\ retryResult.totalVideos >= PreviousCount(k)
                THEN results[k] = retryResult /\ ~corrective[c].warned
                ELSE results[k] = raw[k] /\ corrective[c].warned

\* The corrective call for an entry returned exactly the previous count, and the
\* entry is no longer the one processInBatches returned.
C14_Witness ==
    /\ mainPc = "totals"
    /\ \E c \in 1..Len(corrective) :
          /\ corrective[c].result # <<>>
          /\ ~IsError(corrective[c].result[1])
          /\ corrective[c].result[1].totalVideos = PreviousCount(corrective[c].pos)
          /\ results[corrective[c].pos] # raw[corrective[c].pos]

\* C15: with a previous report, an error entry, a success whose username has
\* no success in the previous report, and a success whose count plus 5 is not
\* below the previous count all stay as processInBatches returned them, and no
\* corrective call is issued for any of them.
C15_OthersUntouched ==
    (lastReport # Undefined /\ mainPc \in {"validate", "totals", "written"}) =>
        \A k \in 1..Len(raw) :
            (\/ IsError(raw[k])
             \/ PreviousSuccesses(k) = {}
             \/ \A p \in PreviousSuccesses(k) :
                   raw[k].totalVideos + 5 >= lastReport[1].results[p].totalVideos)
            => /\ results[k] = raw[k]
               /\ CorrectiveCalls(k) = {}

\* validateVideoCounts has returned after one corrective call, and the list
\* also holds an error entry and a success of a username whose previous entry
\* was an error.
C15_Witness ==
    /\ lastReport # Undefined
    /\ mainPc = "totals"
    /\ Len(corrective) = 1
    /\ \E k \in 1..Len(raw) : IsError(raw[k])
    /\ \E k \in 1..Len(raw) :
          /\ ~IsError(raw[k])
          /\ PreviousSuccesses(k) = {}
          /\ \E p \in 1..Len(lastReport[1].results) :
                lastReport[1].results[p].username = raw[k].username

\* The sum of one field over the entries of a list that are not error entries.
SumOverSuccesses(list, field) ==
    LET successes == SelectSeq(list, LAMBDA user : ~IsError(user))
    IN  SumSeq([k \in 1..Len(successes) |-> successes[k][field]])

\* C16: in the report, totalUsers is the number of usernames given (error
\* entries counted), and totalVideos, totalFollowers, totalLikes and totalViews
\* are the sums of totalVideos, followers, likes and totalViews over the
\* success entries of the validated list.
C16_TotalsAreSumsOverSuccesses ==
    report # Undefined =>
        LET totals == report[1].totals
        IN  /\ report[1].results = results
            /\ totals.totalUsers = Len(usernames)
            /\ totals.totalUsers = Len(results)
            /\ totals.totalVideos = SumOverSuccesses(results, "totalVideos")
            /\ totals.totalFollowers = SumOverSuccesses(results, "followers")
            /\ totals.totalLikes = SumOverSuccesses(results, "likes")
            /\ totals.totalViews = SumOverSuccesses(results, "totalViews")

\* A report was written for a list with an error entry, a success entry as
\* processInBatches returned it and a success entry that validation replaced.
C16_Witness ==
    /\ report # Undefined
    /\ \E k \in 1..Len(results) : IsError(results[k])
    /\ \E k \in 1..Len(results) : ~IsError(results[k]) /\ results[k] = raw[k]
    /\ \E k \in 1..Len(results) : results[k] # raw[k]

\* C17: a report written for a list without a success entry has zero for
\* totalVideos, totalFollowers, totalLikes and totalViews, and each of the
\* three rankings getTopUsers returned for it is empty.
C17_NoSuccessZeroTotalsEmptyRankings ==
    (report # Undefined /\ \A k \in 1..Len(results) : IsError(results[k])) =>
        /\ report[1].totals.totalVideos = 0
        /\ report[1].totals.totalFollowers = 0
        /\ report[1].totals.totalLikes = 0
        /\ report[1].totals.totalViews = 0
        /\ report[1].highest.topUsersByFollowers = <<>>
        /\ report[1].highest.topUsersByViews = <<>>
        /\ report[1].highest.topUsersByLikes = <<>>

\* A report was written for two or more usernames, all of them error entries.
C17_Witness ==
    /\ report # Undefined
    /\ Len(results) >= 2
    /\ report[1].totals.totalUsers = Len(results)
    /\ \A k \in 1..Len(results) : IsError(results[k])

\* The position in the argument array of the entry a ranking line names, and
\* the value of the ranked metric there.
RankedPosition(line) ==
    CHOOSE j \in 1..Len(fnIn.results) : fnIn.results[j].username = line.username
RankedValue(line) == fnIn.results[RankedPosition(line)][fnIn.metric]

\* The limit getTopUsers was called with, 5 when none was given.
RankLimitGiven == IF fnIn.rankLimit = Undefined THEN 5 ELSE fnIn.rankLimit[1]

\* The success entries of the argument array that are not in the ranking.
Unranked(ranking) ==
    {j \in 1..Len(fnIn.results) :
        /\ ~IsError(fnIn.results[j])
        /\ \A r \in 1..Len(ranking) : RankedPosition(ranking[r]) # j}

\* C18: for every list, metric and limit k >= 1, the ranking getTopUsers
\* returns names only success entries of the list, each once, in descending
\* order of the metric, has at most k lines, and no success entry left out of
\* it has a value above the smallest value in it.
C18_RankingIsTopK ==
    fnOut # Undefined =>
        LET ranking == fnOut[1].ranking
        IN  /\ \A r \in 1..Len(ranking) :
                  \E j \in 1..Len(fnIn.results) :
                      /\ fnIn.results[j].username = ranking[r].username
                      /\ ~IsError(fnIn.results[j])
            /\ \A a, b \in 1..Len(ranking) :
                  a < b => /\ ranking[a].username # ranking[b].username
                           /\ RankedValue(ranking[a]) >= RankedValue(ranking[b])
            /\ Len(ranking) <= RankLimitGiven
            /\ \A j \in Unranked(ranking), r \in 1..Len(ranking) :
                  fnIn.results[j][fnIn.metric] <= RankedValue(ranking[r])

\* getTopUsers has returned a ranking of two or more lines for a list that
\* holds an error entry and more success entries than the limit.
C18_Witness ==
    /\ fnOut # Undefined
    /\ Len(fnOut[1].ranking) >= 2
    /\ Len(fnOut[1].ranking) = RankLimitGiven
    /\ Unranked(fnOut[1].ranking) # {}
    /\ \E j \in 1..Len(fnIn.results) : IsError(fnIn.results[j])
    /\ RankedValue(fnOut[1].ranking[1]) > RankedValue(fnOut[1].ranking[2])

\* C19: entries with the same value of the metric appear in the ranking in
\* the order they have in the list, the limit cuts a group of equal values
\* after its earliest entries, and the list passed to getTopUsers is in the
\* same order after the call.
C19_TiesKeepInputOrder ==
    fnOut # Undefined =>
        LET ranking == fnOut[1].ranking
        IN  /\ \A a, b \in 1..Len(ranking) :
                  (a < b /\ RankedValue(ranking[a]) = RankedValue(ranking[b]))
                  => RankedPosition(ranking[a]) < RankedPosition(ranking[b])
            /\ \A j \in Unranked(ranking), r \in 1..Len(ranking) :
                  fnIn.results[j][fnIn.metric] = RankedValue(ranking[r])
                  => RankedPosition(ranking[r]) < j
            /\ fnOut[1].results = fnIn.results

\* getTopUsers has returned a ranking in which two lines have the same value,
\* for a list in which a third entry of that value was cut by the limit and an
\* entry of another value stands before all three.
C19_Witness ==
    /\ fnOut # Undefined
    /\ \E a, b \in 1..Len(fnOut[1].ranking) :
          /\ a < b
          /\ RankedValue(fnOut[1].ranking[a]) = RankedValue(fnOut[1].ranking[b])
    /\ \E j \in Unranked(fnOut[1].ranking) :
          fnIn.results[j][fnIn.metric]
              = RankedValue(fnOut[1].ranking[Len(fnOut[1].ranking)])
    /\ \E j \in Unranked(fnOut[1].ranking) :
          /\ j < RankedPosition(fnOut[1].ranking[1])
          /\ fnIn.results[j][fnIn.metric] # RankedValue(fnOut[1].ranking[1])

\* C20: given a previous totals record, calculateDifferences returns for each
\* of the five totals fields the current value minus the previous value, the
\* previous value taken as 0 for a field the previous record does not have.
C20_DifferencesPerField ==
    fnOut # Undefined =>
        /\ DOMAIN fnOut[1] = TotalsFields
        /\ \A field \in TotalsFields :
              /\ field \in DOMAIN fnIn.previous
                 => fnOut[1][field] + fnIn.previous[field] = fnIn.current[field]
              /\ field \notin DOMAIN fnIn.previous
                 => fnOut[1][field] = fnIn.current[field]

\* calculateDifferences has returned 80 for 500 videos against 420, a decrease
\* for another field, and the current value for a field the previous record
\* lacks.
C20_Witness ==
    /\ fnOut # Undefined
    /\ fnIn.current.totalVideos = 500
    /\ "totalVideos" \in DOMAIN fnIn.previous
    /\ fnIn.previous.totalVideos = 420
    /\ fnOut[1].totalVideos = 80
    /\ \E field \in DOMAIN fnIn.previous : fnOut[1][field] < 0
    /\ \E field \in TotalsFields \ DOMAIN fnIn.previous :
          fnOut[1][field] = fnIn.current[field]

\* C21: in a run that loaded no previous report, the differences main has at
\* the end are the current totals, field by field (a record, so that the run
\* is told apart from one whose differences are all zero).
C21_FirstRunDeltasAreTotals ==
    (mainPc = "written" /\ lastReport = Undefined) =>
        /\ printed.differences # Undefined
        /\ \A field \in TotalsFields :
              printed.differences[1][field] = report[1].totals[field]

\* C22: the document a run writes holds the timestamp, the results with their
\* error entries, the totals, the three rankings and the differences, the
\* last of these exactly when a previous report was loaded.
C22_ReportHoldsDeltasIffPrevious ==
    report # Undefined =>
        /\ {"timestamp", "results", "totals", "highest"} \subseteq DOMAIN report[1]
        /\ report[1].results = results
        /\ DOMAIN report[1].highest
              = {"topUsersByFollowers", "topUsersByViews", "topUsersByLikes"}
        /\ ("differences" \in DOMAIN report[1]) <=> (lastReport # Undefined)

\* C23: the results array of a written report has one record per username
\* given, the record at position k carrying username k, after validation too;
\* a record has either the metrics and the video list and no error, or an
\* error and none of those.
C23_OneRecordPerUsername ==
    report # Undefined =>
        /\ Len(report[1].results) = Len(usernames)
        /\ \A k \in 1..Len(report[1].results) :
              LET record == report[1].results[k]
              IN  /\ record.username = usernames[k]
                  /\ \/ DOMAIN record = {"username", "error"}
                     \/ DOMAIN record = {"username", "followers", "likes",
                                         "totalViews", "totalVideos", "videos"}

\* A report was written for three or more usernames after validation replaced
\* one record; another record is an error.
C23_Witness ==
    /\ report # Undefined
    /\ Len(report[1].results) >= 3
    /\ \E k \in 1..Len(results) : report[1].results[k] # raw[k]
    /\ \E k \in 1..Len(results) : IsError(report[1].results[k])

\* The report files of the folder that hold a timestamp that is a date.
Qualifying == {f \in fnIn : f.isReportName /\ f.content = "valid"}

\* C24: loadLastReport returns the report of the greatest report filename
\* among those holding a timestamp that is a date, passing over every report
\* file that holds none, and returns no report only when no file qualifies.
C24_LatestQualifyingReport ==
    fnOut # Undefined =>
        /\ ~fnOut[1].threw
        /\ IF Qualifying = {}
           THEN fnOut[1].report = Undefined
           ELSE /\ fnOut[1].report # Undefined
                /\ \E f \in Qualifying :
                      /\ fnOut[1].report[1] = f.stamp
                      /\ \A g \in Qualifying : g.stamp <= f.stamp

\* C25: a run given no username exits with code 1 and the message that none
\* was found, having started no call and written no report; a run given
\* usernames has ended with code 0 only if its report is written.
C25_EmptyListExitsElseReportFirst ==
    mainPc # "start" =>
        /\ usernames = <<>> =>
              /\ mainPc = "exit1"
              /\ printed # <<>>
              /\ printed.exitCode = 1
              /\ printed.error = NoUsernamesMessage
              /\ fetches = <<>>
              /\ progress.value = 0
              /\ report = Undefined
        /\ (usernames # <<>> /\ printed # <<>>) =>
              /\ printed.exitCode = 0
              /\ report # Undefined
              /\ Len(report[1].results) = Len(usernames)

\* A run has exited on an empty list of usernames.
C25_Witness ==
    /\ mainPc = "exit1"
    /\ usernames = <<>>
    /\ printed.exitCode = 1

\* C26: whatever config.json holds, the run goes on with retries, rankLimit
\* and batchSize all set, each at least 1 (the defaults 3, 5 and 5 standing in
\* for what is missing or invalid), so that every call that has returned made
\* at least one attempt.
C26_ConfigFallsBackToDefaults ==
    mainPc # "start" =>
        /\ config.retries # Undefined
        /\ config.retries[1] >= 1
        /\ config.rankLimit # Undefined
        /\ config.rankLimit[1] >= 1
        /\ config.batchSize >= 1
        /\ \A f \in DOMAIN fetches :
              fetches[f].pc = "done" => fetches[f].attempts >= 1

\* The batch calls that have completed: those already pushed to results and
\* those of the current round that have returned.
CompletedTasks ==
    Len(results) + Cardinality({f \in BatchFetches : Settled(f)})

\* C27: with N usernames and batch size b, round r of processInBatches holds
\* the min(b, N - (r-1)b) usernames from position (r-1)b on, so that there are
\* ceil(N/b) rounds when it returns; the progress value counts the tasks
\* completed, one step per username, and is N once processInBatches and its
\* tasks have ended.
C27_RoundsAndCounter ==
    LET N == Len(usernames)
        b == config.batchSize
    IN  /\ mainPc = "batch" =>
              /\ (rounds - 1) * b < N
              /\ Len(batch) = Min(b, N - (rounds - 1) * b)
              /\ \A k \in 1..Len(batch) : batch[k] = (rounds - 1) * b + k
        /\ mainPc = "batchDone" =>
              /\ (rounds - 1) * b < N
              /\ rounds * b >= N
        /\ mainPc \in {"batch", "aborted"} => progress.value = CompletedTasks
        /\ (\/ mainPc \in {"batchDone", "validate", "totals", "written"}
            \/ mainPc = "aborted" /\ \A f \in BatchFetches : ~InFlight(f))
           => progress.value = N

\* The corrective calls that exist: issued by validateVideoCounts and not yet
\* consumed by its await.
CorrectiveFetches == {f \in DOMAIN fetches : ~IsBatch(f)}

\* C28: while a corrective call of validateVideoCounts exists, every call of
\* the batch phase has returned and been consumed, and it is the only
\* corrective call; each corrective call issued before it has returned.
C28_CorrectiveCallsAloneAndInTurn ==
    /\ CorrectiveFetches # {} =>
          /\ BatchFetches = {}
          /\ Len(results) = Len(usernames)
          /\ Cardinality(CorrectiveFetches) = 1
    /\ \A c \in 1..Len(corrective) :
          corrective[c].result = <<>> =>
              /\ c = Len(corrective)
              /\ RetryId(corrective[c].pos) \in CorrectiveFetches

\* The second corrective call of a run is in flight, after a batch phase of
\* more than one round.
C28_Witness ==
    /\ Len(corrective) = 2
    /\ corrective[1].result # <<>>
    /\ \E f \in CorrectiveFetches : fetches[f].pc = "attempting"
    /\ rounds >= 2

\* A profile's counts agree with its list of videos.
CountsAgree(user) ==
    IsError(user) \/ /\ user.totalVideos = Len(user.videos)
                     /\ user.totalViews = SumSeq(user.videos)

\* C29: in every state, every success entry, be it the data a call extracted,
\* the outcome of a call, an entry of the results array before or after
\* validation, or a record of the written report, has totalVideos equal to
\* the length of its videos and totalViews equal to the sum of their views.
C29_CountsAgreeWithVideos ==
    /\ \A f \in DOMAIN fetches :
          /\ fetches[f].data # <<>> =>
                /\ fetches[f].data[1].totalVideos = Len(fetches[f].data[1].videos)
                /\ fetches[f].data[1].totalViews = SumSeq(fetches[f].data[1].videos)
          /\ fetches[f].result # <<>> => CountsAgree(fetches[f].result[1])
    /\ \A k \in 1..Len(results) : CountsAgree(results[k])
    /\ \A k \in 1..Len(raw) : CountsAgree(raw[k])
    /\ report # Undefined =>
          \A k \in 1..Len(report[1].results) : CountsAgree(report[1].results[k])

\* A report was written in which a record replaced by a corrective result has
\* more videos than the record it replaced.
C29_Witness ==
    /\ report # Undefined
    /\ \E k \in 1..Len(raw) :
          /\ ~IsError(raw[k])
          /\ ~IsError(report[1].results[k])
          /\ report[1].results[k].totalVideos > raw[k].totalVideos
          /\ report[1].results[k].videos # raw[k].videos

\* The success entries of the validated list, by position.
Successes == {k \in 1..Len(results) : ~IsError(results[k])}

\* A ranking of the report agrees with the validated list: it names success
\* entries of that list, as many as the limit allows, each with the value the
\* entry has in that list.
RankingFromResults(ranking, metric) ==
    /\ Len(ranking) = Min(Cardinality(Successes),
                          IF config.rankLimit = Undefined THEN 5
                          ELSE config.rankLimit[1])
    /\ \A r \in 1..Len(ranking) :
          \E k \in Successes :
              /\ results[k].username = ranking[r].username
              /\ ranking[r].value = formatNumber(results[k][metric])

\* C30: after processInBatches has returned, an entry of the results array is
\* either the one it returned or the result of the one corrective call made
\* for it, which once written stays; and the results, the totals and the three
\* rankings of the written report are those of that one validated list.
C30_OneValidatedList ==
    /\ mainPc \in {"validate", "totals", "written"} =>
          /\ Len(results) = Len(raw)
          /\ \A k \in 1..Len(raw) :
                /\ Cardinality(CorrectiveCalls(k)) <= 1
                /\ \/ results[k] = raw[k]
                   \/ \E c \in CorrectiveCalls(k) :
                         /\ corrective[c].result # <<>>
                         /\ results[k] = corrective[c].result[1]
                /\ \A c \in CorrectiveCalls(k) :
                      (corrective[c].result # <<>> /\ ~corrective[c].warned)
                      => results[k] = corrective[c].result[1]
    /\ report # Undefined =>
          /\ report[1].results = results
          /\ \A field \in {"totalVideos", "totalViews"} :
                report[1].totals[field] = SumOverSuccesses(results, field)
          /\ report[1].totals.totalFollowers = SumOverSuccesses(results, "followers")
          /\ report[1].totals.totalLikes = SumOverSuccesses(results, "likes")
          /\ RankingFromResults(report[1].highest.topUsersByFollowers, "followers")
          /\ RankingFromResults(report[1].highest.topUsersByViews, "totalViews")
          /\ RankingFromResults(report[1].highest.topUsersByLikes, "likes")

\* A report was written after validation had replaced two entries of the
\* list, each by the result of its corrective call.
C30_Witness ==
    /\ report # Undefined
    /\ Len(corrective) = 2
    /\ \A c \in 1..2 : /\ ~corrective[c].warned
                       /\ results[corrective[c].pos] # raw[corrective[c].pos]
    /\ Len(report[1].highest.topUsersByFollowers) >= 2

\* The tolerance config.json asks for, 5 when it names none.
ConfiguredTolerance ==
    IF config.regressionTolerance = Undefined THEN 5
    ELSE config.regressionTolerance[1]

\* C31: with a previous report, a corrective call is made for an entry that
\* validateVideoCounts has examined exactly when the entry and its previous
\* entry are successes and the current count plus the regressionTolerance of
\* config.json (5 if it has none) is below the previous count.
C31_ToleranceIsConfigured ==
    lastReport # Undefined =>
        \A k \in Examined :
            CorrectiveCalls(k) # {}
            <=> /\ ~IsError(raw[k])
                /\ \E p \in PreviousSuccesses(k) :
                      raw[k].totalVideos + ConfiguredTolerance
                          < lastReport[1].results[p].totalVideos

\* The lines of the file read, trimmed, in file order.
TrimmedLines == MapTrim(Split(fnIn.data))

FirstOccurrence(name) ==
    CHOOSE k \in 1..Len(TrimmedLines) :
        /\ TrimmedLines[k] = name
        /\ \A j \in 1..(k - 1) : TrimmedLines[j] # name

\* C32: readUsernamesFromFile returns the trimmed non-empty lines of the file,
\* each once, in the order of their first occurrence, and the file made of
\* its result, one name per line, is read back as the same list.
C32_ReadUsernames ==
    (fnOut # Undefined /\ "data" \in DOMAIN fnIn) =>
        LET out == fnOut[1]
        IN  /\ \A k \in 1..Len(out) :
                  /\ out[k] # <<>>
                  /\ Head(out[k]) # " "
                  /\ out[k][Len(out[k])] # " "
                  /\ ~InSeq("\n", out[k])
            /\ {out[k] : k \in 1..Len(out)}
                   = {TrimmedLines[k] : k \in 1..Len(TrimmedLines)} \ {<<>>}
            /\ \A j, k \in 1..Len(out) :
                  j < k => /\ out[j] # out[k]
                           /\ FirstOccurrence(out[j]) < FirstOccurrence(out[k])
            /\ readUsernamesFromFile([data |-> Join(out)]) = out

\* A file with a name on two lines, once with a blank before it, after the
\* line of another name that comes later in the alphabet.
C32_Witness ==
    /\ fnOut # Undefined
    /\ "data" \in DOMAIN fnIn
    /\ fnIn.data = <<"b", "\n", "a", "\n", " ", "b">>
    /\ fnOut[1] = << <<"b">>, <<"a">> >>

\* Entry k was replaced by the outcome of its corrective call.
Replaced(k) ==
    \E c \in CorrectiveCalls(k) :
        corrective[c].result # <<>> /\ ~corrective[c].warned

\* C33: validateVideoCounts never lowers a video count: an error entry stays
\* as processInBatches returned it, a success stays a success with at least
\* the count it had, and an entry replaced by its corrective call has at least
\* the count of the previous report.
C33_NeverLowersVideoCount ==
    mainPc \in {"validate", "totals", "written"} =>
        /\ Len(results) = Len(raw)
        /\ \A k \in 1..Len(raw) :
              /\ IF IsError(raw[k]) THEN results[k] = raw[k]
                 ELSE /\ ~IsError(results[k])
                      /\ results[k].totalVideos >= raw[k].totalVideos
              /\ Replaced(k) => results[k].totalVideos >= PreviousCount(k)

\* Two corrective calls have returned: one read more videos than the batch
\* phase had and replaced its entry, the other read fewer and left its entry
\* with the count it had.
C33_Witness ==
    /\ mainPc = "totals"
    /\ \E k \in 1..Len(raw) :
          Replaced(k) /\ results[k].totalVideos > raw[k].totalVideos
    /\ \E c \in 1..Len(corrective) :
          /\ corrective[c].result # <<>>
          /\ ~IsError(corrective[c].result[1])
          /\ corrective[c].result[1].totalVideos < raw[corrective[c].pos].totalVideos
          /\ results[corrective[c].pos] = raw[corrective[c].pos]

\* A success entry holds at least one video.
HasVideos(user) ==
    ~IsError(user) => Len(user.videos) >= 1 /\ user.totalVideos >= 1

\* C34: every success entry, returned by a call of the batch phase or by a
\* corrective call, held in the results or written to the report, has at
\* least one video; a call none of whose attempts read a video returns an
\* error entry.
C34_SuccessHasVideos ==
    /\ \A f \in DOMAIN fetches :
          fetches[f].pc = "done" =>
              /\ HasVideos(fetches[f].result[1])
              /\ fetches[f].last # "videos" => IsError(fetches[f].result[1])
    /\ \A k \in 1..Len(raw) : HasVideos(raw[k])
    /\ \A k \in 1..Len(results) : HasVideos(results[k])
    /\ \A c \in 1..Len(corrective) :
          corrective[c].result # <<>> => HasVideos(corrective[c].result[1])
    /\ report # Undefined =>
          \A k \in 1..Len(report[1].results) : HasVideos(report[1].results[k])

\* The batch phase returned a success and an error entry, one entry was
\* replaced by its corrective call, and a later corrective call that read a
\* page without videos has returned an error entry.
C34_Witness ==
    /\ mainPc = "validate"
    /\ \E k \in 1..Len(raw) : IsError(raw[k])
    /\ \E k \in 1..Len(raw) : ~IsError(raw[k])
    /\ \E k \in 1..Len(raw) : Replaced(k)
    /\ \E f \in DOMAIN fetches :
          /\ ~IsBatch(f)
          /\ fetches[f].pc = "done"
          /\ fetches[f].last = "empty"
          /\ IsError(fetches[f].result[1])

\* The last attempt of call f ended in an error that is not a timeout, and
\* call f dealt with it as the catch block is meant to: it wrote the line of
\* that attempt to the retry log and went on, to another attempt or to its
\* outcome.
LoggedAndProceeds(f) ==
    fetches[f].last \in ErrorKinds \ {"timeout"} =>
        /\ fetches[f].pc \in {"loop", "closing", "done"}
        /\ \E n \in 1..Len(retryLog) :
              retryLog[n] = <<fetches[f].username, fetches[f].attempts,
                              fetches[f].last>>

\* C35: in every call, of the batch phase or corrective, an attempt that ends
\* in an error other than a timeout appends one line to the retry log, and
\* the call goes on to its next attempt or to its Failed outcome: recording
\* the error never makes the call throw.
C35_ErrorLoggedFetchProceeds ==
    \A f \in DOMAIN fetches : LoggedAndProceeds(f)

\* C36: whatever batchSize loadConfig returns, processInBatches comes to its
\* end, by return or by the rejection of a task, once the tasks it started
\* have settled.
C36_ProcessInBatchesTerminates ==
    <>(fnOut.pc \in {"returned", "rejected"})

\* C37: the report a completed run has written carries a timestamp that is a
\* date and has the greatest name of the report files, and the next run loads
\* exactly that report as its previous report, whatever older files the
\* reports folder holds.
C37_NextRunLoadsPrecedingReport ==
    /\ fnOut.wrote # Undefined =>
          \E f \in fnOut.folder :
              /\ f = ReportFile(fnOut.wrote[1])
              /\ HasTimestamp(f.content)
              /\ \A g \in fnOut.folder : g.isReportName => g.stamp <= f.stamp
    /\ fnOut.previous # Undefined =>
          fnOut.loaded = [threw |-> FALSE, report |-> fnOut.previous]

\* The third run has loaded the report of the second, in a folder that also
\* holds the report of the first run, an older report with a timestamp and an
\* older report file that is not JSON.
C37_Witness ==
    /\ fnOut.runs = 3
    /\ fnOut.previous = Some(MaxFiles + 2)
    /\ fnOut.loaded.report = fnOut.previous
    /\ ReportFile(MaxFiles + 1) \in fnOut.folder
    /\ \E f \in fnIn : f.isReportName /\ f.content = "valid"
    /\ \E f \in fnIn : f.isReportName /\ f.content = "notJson"

====
